---- MODULE Spec2Model ----
(***************************************************************************)
(* Model of the ergo-airflow sensors.                                      *)
(*                                                                         *)
(* TaskRequestBatchSensor (src/src/sensors/task_requests_batcher.py) is    *)
(* poked repeatedly by the sensor framework.  One poke chooses a queue     *)
(* (choose_queue), collects up to max_requests tasks of it (collect_tasks) *)
(* and decides whether to push them to XCom.  The two queries are separate *)
(* reads of the ErgoTask table, so other writers may act between them.     *)
(* Time is counted in whole units of the wait threshold's resolution.      *)
(*                                                                         *)
(* The sensor framework (BaseSensorOperator) is not part of the repository *)
(* and appears by its contract only: it pokes again after a poke that      *)
(* returned False while retries remain, reports through                    *)
(* is_eligible_to_retry() whether they do, and, soft_fail being set, ends  *)
(* the session as skipped when a poke returns False on the last attempt.   *)
(* A poke that returns True ends the session with the XCom values pushed.  *)
(***************************************************************************)
EXTENDS Integers, Sequences, FiniteSets

\* ---------------------------------------------------------------- bounds
MaxTasks == 3        \* rows the ErgoTask table may hold
MaxTime == 2         \* last value of the clock
MaxRetries == 2      \* 'retries' handed to the sensor: pokes after the first
max_requests == 2    \* constructor argument max_requests
urgent_task_wait_threshold == 1   \* Config.queue_wait_threshold

TaskIds == 1..MaxTasks
Queues == {"Q1", "Q2"}
None == "None"
Sessions == {"s1", "s2"}

\* airflow State values an ErgoTask row takes in this model
SCHEDULED == "scheduled"
UP_FOR_RESCHEDULE == "up_for_reschedule"
QUEUED == "queued"
States == {SCHEDULED, UP_FOR_RESCHEDULE, QUEUED}

VARIABLES
    tasks,        \* the ErgoTask table: id -> row
    clock,        \* wall clock (timezone.utcnow() and the database's now())
    pc,           \* per session: "Polling", "Chosen", "Flushed", "SoftFailed", "HardFailed"
    now,          \* per session: 'now' read at the start of the running poke
    queue_url,    \* per session: the queue chosen by the running poke
    attempts,     \* per session: pokes the framework still allows after this one
    xcom,         \* per session: the values pushed to XCom
    lastResult,   \* per session: outcome of the last finished poke
    watcher       \* the ErgoJobResultSensor session: pc, attempts, result, error

vars == <<tasks, clock, pc, now, queue_url, attempts, xcom, lastResult, watcher>>

Min(a, b) == IF a < b THEN a ELSE b

\* ------------------------------------------------------------ the queries

\* variant: the filter also lets QUEUED rows through
filter_ergo_task_with_queued(t) == t.state \in {SCHEDULED, UP_FOR_RESCHEDULE, QUEUED}

\* filter_ergo_task: ErgoTask.state.in_([SCHEDULED, UP_FOR_RESCHEDULE])
filter_ergo_task(t) == t.state \in {SCHEDULED, UP_FOR_RESCHEDULE}

\* rows of table T passing the filter, optionally of one queue
FilteredIds(T) == {i \in DOMAIN T : filter_ergo_task(T[i])}
QueueIds(T, q) == {i \in FilteredIds(T) : T[i].queue_url = q}

\* func.count(ErgoTask.queue_url) of a group
col_count_group(T, q) == Cardinality(QueueIds(T, q))

\* func.min(ErgoTask.ti_execution_date) of a non-empty group
col_min_execution_date(T, q) ==
    CHOOSE d \in {T[i].ti_execution_date : i \in QueueIds(T, q)} :
        \A i \in QueueIds(T, q) : d <= T[i].ti_execution_date

\* (now() - min(ti_execution_date)) >= wait_second, in either dialect
col_is_urgent_task(T, q, dbnow) ==
    dbnow - col_min_execution_date(T, q) >= urgent_task_wait_threshold

\* variant: the two ORDER BY keys swapped, count first
OrderedBefore_CountFirst(T, dbnow, q1, q2) ==
    \/ col_count_group(T, q1) > col_count_group(T, q2)
    \/ /\ col_count_group(T, q1) = col_count_group(T, q2)
       /\ col_is_urgent_task(T, q1, dbnow) /\ ~col_is_urgent_task(T, q2, dbnow)

\* group q1 sorts strictly before group q2 under
\* order_by(col_is_urgent_task.desc(), col_count_group.desc())
OrderedBefore(T, dbnow, q1, q2) ==
    \/ col_is_urgent_task(T, q1, dbnow) /\ ~col_is_urgent_task(T, q2, dbnow)
    \/ /\ col_is_urgent_task(T, q1, dbnow) = col_is_urgent_task(T, q2, dbnow)
       /\ col_count_group(T, q1) > col_count_group(T, q2)

\* the groups of the query: one per queue_url with a row passing the filter
valid_queues(T) == {q \in Queues : QueueIds(T, q) # {}}

\* choose_queue: the queue_url values .first() may return.  The ORDER BY has
\* no key after the count, so among groups equal on both keys the database
\* is free to return any one first.
choose_queue(T, dbnow) ==
    IF valid_queues(T) = {} THEN {None}
    ELSE {q \in valid_queues(T) :
            \A q2 \in valid_queues(T) : ~OrderedBefore(T, dbnow, q2, q)}

\* a row as the ORM hands it to the sensor
Row(T, i) == [id |-> i, queue_url |-> T[i].queue_url, state |-> T[i].state,
              ti_execution_date |-> T[i].ti_execution_date]

\* variant: the query without .limit(max_requests)
collect_tasks_no_limit(T, q) ==
    LET ids == QueueIds(T, q)
        n == Cardinality(ids)
        picks == {f \in [1..n -> ids] :
                    /\ \A a, b \in 1..n : a # b => f[a] # f[b]
                    /\ \A a, b \in 1..n :
                         a < b => T[f[a]].ti_execution_date <= T[f[b]].ti_execution_date}
    IN {[k \in 1..n |-> Row(T, f[k])] : f \in picks}

\* variant: the query leaves out the rows some session has pushed to XCom
collect_tasks_skip_pushed(T, q) ==
    LET ids == {i \in QueueIds(T, q) :
                  \A s \in Sessions : \A k \in 1..Len(xcom[s].tasks) :
                      xcom[s].tasks[k].id # i}
        n == Min(Cardinality(ids), max_requests)
        picks == {f \in [1..n -> ids] :
                    /\ \A a, b \in 1..n : a # b => f[a] # f[b]
                    /\ \A a, b \in 1..n :
                         a < b => T[f[a]].ti_execution_date <= T[f[b]].ti_execution_date
                    /\ \A i \in ids \ {f[a] : a \in 1..n} : \A a \in 1..n :
                         T[f[a]].ti_execution_date <= T[i].ti_execution_date}
    IN {[k \in 1..n |-> Row(T, f[k])] : f \in picks}

\* variant: the query without .order_by(ti_execution_date)
collect_tasks_unordered(T, q) ==
    LET ids == QueueIds(T, q)
        n == Min(Cardinality(ids), max_requests)
        picks == {f \in [1..n -> ids] :
                    /\ \A a, b \in 1..n : a # b => f[a] # f[b]
                    /\ \A i \in ids \ {f[a] : a \in 1..n} : \A a \in 1..n :
                         T[f[a]].ti_execution_date <= T[i].ti_execution_date}
    IN {[k \in 1..n |-> Row(T, f[k])] : f \in picks}

\* variant: the limit cuts the rows before they are ordered
collect_tasks_limit_first(T, q) ==
    LET ids == QueueIds(T, q)
        n == Min(Cardinality(ids), max_requests)
        picks == {f \in [1..n -> ids] :
                    /\ \A a, b \in 1..n : a # b => f[a] # f[b]
                    /\ \A a, b \in 1..n :
                         a < b => T[f[a]].ti_execution_date <= T[f[b]].ti_execution_date}
    IN {[k \in 1..n |-> Row(T, f[k])] : f \in picks}

\* collect_tasks: the row lists the query may return: the filtered rows of the
\* queue ordered by ti_execution_date, cut at max_requests; rows of equal
\* date come in any order.
collect_tasks(T, q) ==
    LET ids == QueueIds(T, q)
        n == Min(Cardinality(ids), max_requests)
        picks == {f \in [1..n -> ids] :
                    /\ \A a, b \in 1..n : a # b => f[a] # f[b]
                    /\ \A a, b \in 1..n :
                         a < b => T[f[a]].ti_execution_date <= T[f[b]].ti_execution_date
                    /\ \A i \in ids \ {f[a] : a \in 1..n} : \A a \in 1..n :
                         T[f[a]].ti_execution_date <= T[i].ti_execution_date}
    IN {[k \in 1..n |-> Row(T, f[k])] : f \in picks}

\* ---------------------------------------------------------------- poke

\* variant: the age compared with zero instead of the threshold
IsUrgentTask_NoThreshold(n, task) == n - task.ti_execution_date >= 0

\* the test of line 66 on one collected row
IsUrgentTask(n, task) == n - task.ti_execution_date > urgent_task_wait_threshold

\* the loop of lines 64-69: index (from 0) of the last row of the leading run
\* of urgent rows, -1 when the first row is not urgent
RECURSIVE UrgentScan(_, _, _)
UrgentScan(result, n, idx) ==
    IF idx + 1 < Len(result) /\ IsUrgentTask(n, result[idx + 2])
    THEN UrgentScan(result, n, idx + 1)
    ELSE idx
urgent_task_idx(result, n) == UrgentScan(result, n, -1)

\* context['ti'].is_eligible_to_retry() as the framework reports it
is_eligible_to_retry(s) == attempts[s] > 0

\* variant: soft_fail left at the framework's default
soft_fail_default == FALSE

\* soft_fail is forced to True by __init__
soft_fail == TRUE

\* variant: <= for < in the size test
ShouldWait_OffByOne(result, idx, eligible) ==
    Len(result) <= max_requests /\ idx = -1 /\ eligible

\* variant: the retry test left out
ShouldWait_NoRetryTest(result, idx, eligible) ==
    Len(result) < max_requests /\ idx = -1

\* the condition of line 73
ShouldWait(result, idx, eligible) ==
    Len(result) < max_requests /\ idx = -1 /\ eligible

\* lines 73-82: TRUE when poke pushes to XCom and returns True
ShouldPush(result, idx, eligible) ==
    ~ShouldWait(result, idx, eligible) /\ result # <<>>

NoXcom == [tasks |-> <<>>, sqs_queue_url |-> None]

\* the watcher record while no ErgoJobResultSensor runs
NoWatcher == [pc |-> "Off", attempts |-> 0, result |-> None, error |-> <<>>]

\* variant: a poke that returned False does not use up an attempt
AfterFalse_NoCount(s) ==
    /\ now' = [now EXCEPT ![s] = 0]
    /\ queue_url' = [queue_url EXCEPT ![s] = None]
    /\ pc' = [pc EXCEPT ![s] = "Polling"]
    /\ UNCHANGED attempts

\* what the framework does with a poke that returned False; the locals of
\* the poke (now, queue_url) are gone with the call
AfterFalse(s) ==
    /\ now' = [now EXCEPT ![s] = 0]
    /\ queue_url' = [queue_url EXCEPT ![s] = None]
    /\ IF attempts[s] > 0
       THEN /\ pc' = [pc EXCEPT ![s] = "Polling"]
            /\ attempts' = [attempts EXCEPT ![s] = @ - 1]
       ELSE /\ pc' = [pc EXCEPT ![s] = IF soft_fail THEN "SoftFailed" ELSE "HardFailed"]
            /\ UNCHANGED attempts

\* poke, lines 57-62: read now, run choose_queue, return False without a queue
PokeChoose(s) ==
    /\ pc[s] = "Polling"
    /\ \E q \in choose_queue(tasks, clock) :
         IF q = None
         THEN /\ lastResult' = [lastResult EXCEPT ![s] = "Idle"]
              /\ AfterFalse(s)
         ELSE /\ now' = [now EXCEPT ![s] = clock]
              /\ pc' = [pc EXCEPT ![s] = "Chosen"]
              /\ queue_url' = [queue_url EXCEPT ![s] = q]
              /\ UNCHANGED <<attempts, lastResult>>
    /\ UNCHANGED <<tasks, clock, xcom, watcher>>

\* variant: the poke that pushes a batch also marks its tasks QUEUED
PokeCollect_MarksQueued(s) ==
    /\ pc[s] = "Chosen"
    /\ \E result \in collect_tasks(tasks, queue_url[s]) :
         LET idx == urgent_task_idx(result, now[s]) IN
         IF ShouldWait(result, idx, is_eligible_to_retry(s))
         THEN /\ lastResult' = [lastResult EXCEPT
                    ![s] = IF result = <<>> THEN "Idle" ELSE "Wait"]
              /\ AfterFalse(s)
              /\ UNCHANGED <<xcom, tasks>>
         ELSE IF ShouldPush(result, idx, is_eligible_to_retry(s))
         THEN /\ xcom' = [xcom EXCEPT
                    ![s] = [tasks |-> result, sqs_queue_url |-> queue_url[s]]]
              /\ lastResult' = [lastResult EXCEPT ![s] = "Flush"]
              /\ pc' = [pc EXCEPT ![s] = "Flushed"]
              /\ tasks' = [i \in DOMAIN tasks |->
                    IF \E k \in 1..Len(result) : result[k].id = i
                    THEN [tasks[i] EXCEPT !.state = QUEUED] ELSE tasks[i]]
              /\ UNCHANGED <<attempts, now, queue_url>>
         ELSE /\ lastResult' = [lastResult EXCEPT ![s] = "Idle"]
              /\ AfterFalse(s)
              /\ UNCHANGED <<xcom, tasks>>
    /\ UNCHANGED <<clock, watcher>>

\* variant: the poke pushes what it has collected before it decides to wait
PokeCollect_PushOnWait(s) ==
    /\ pc[s] = "Chosen"
    /\ \E result \in collect_tasks(tasks, queue_url[s]) :
         LET idx == urgent_task_idx(result, now[s]) IN
         IF ShouldWait(result, idx, is_eligible_to_retry(s))
         THEN /\ lastResult' = [lastResult EXCEPT
                    ![s] = IF result = <<>> THEN "Idle" ELSE "Wait"]
              /\ AfterFalse(s)
              /\ xcom' = [xcom EXCEPT
                    ![s] = [tasks |-> result, sqs_queue_url |-> queue_url[s]]]
         ELSE IF ShouldPush(result, idx, is_eligible_to_retry(s))
         THEN /\ xcom' = [xcom EXCEPT
                    ![s] = [tasks |-> result, sqs_queue_url |-> queue_url[s]]]
              /\ lastResult' = [lastResult EXCEPT ![s] = "Flush"]
              /\ pc' = [pc EXCEPT ![s] = "Flushed"]
              /\ UNCHANGED <<attempts, now, queue_url>>
         ELSE /\ lastResult' = [lastResult EXCEPT ![s] = "Idle"]
              /\ AfterFalse(s)
              /\ UNCHANGED xcom
    /\ UNCHANGED <<tasks, clock, watcher>>

\* poke, lines 63-82: collect the tasks, scan for urgent ones, decide
PokeCollect(s) ==
    /\ pc[s] = "Chosen"
    /\ \E result \in collect_tasks(tasks, queue_url[s]) :
         LET idx == urgent_task_idx(result, now[s]) IN
         IF ShouldWait(result, idx, is_eligible_to_retry(s))
         THEN /\ lastResult' = [lastResult EXCEPT
                    ![s] = IF result = <<>> THEN "Idle" ELSE "Wait"]
              /\ AfterFalse(s)
              /\ UNCHANGED xcom
         ELSE IF ShouldPush(result, idx, is_eligible_to_retry(s))
         THEN /\ xcom' = [xcom EXCEPT
                    ![s] = [tasks |-> result, sqs_queue_url |-> queue_url[s]]]
              /\ lastResult' = [lastResult EXCEPT ![s] = "Flush"]
              /\ pc' = [pc EXCEPT ![s] = "Flushed"]
              /\ UNCHANGED <<attempts, now, queue_url>>
         ELSE /\ lastResult' = [lastResult EXCEPT ![s] = "Idle"]
              /\ AfterFalse(s)
              /\ UNCHANGED xcom
    /\ UNCHANGED <<tasks, clock, watcher>>

\* ------------------------------------------------------ the environment

Terminal == {"Flushed", "SoftFailed", "HardFailed"}

\* a producer inserts a task request for queue q; ids are handed out in order
\* and the request carries the current time as its ti_execution_date.  The
\* queue of the first request is called "Q1".
AddTask(i, q) ==
    /\ i \notin DOMAIN tasks
    /\ \A j \in TaskIds : j < i => j \in DOMAIN tasks
    /\ DOMAIN tasks = {} => q = "Q1"
    /\ tasks' = [j \in DOMAIN tasks \cup {i} |->
                    IF j = i THEN [queue_url |-> q, state |-> SCHEDULED,
                                   ti_execution_date |-> clock]
                    ELSE tasks[j]]
    /\ UNCHANGED <<clock, pc, now, queue_url, attempts, xcom, lastResult, watcher>>

\* another process moves a task on: the pusher queues a scheduled or
\* rescheduled task, a failed delivery puts a queued task up for reschedule
SetState(i, st) ==
    /\ i \in DOMAIN tasks
    /\ \/ tasks[i].state = SCHEDULED /\ st = QUEUED
       \/ tasks[i].state = QUEUED /\ st = UP_FOR_RESCHEDULE
       \/ tasks[i].state = UP_FOR_RESCHEDULE /\ st = QUEUED
    /\ tasks' = [tasks EXCEPT ![i].state = st]
    /\ UNCHANGED <<clock, pc, now, queue_url, attempts, xcom, lastResult, watcher>>

\* time passes
Tick ==
    /\ clock < MaxTime
    /\ clock' = clock + 1
    /\ UNCHANGED <<tasks, pc, now, queue_url, attempts, xcom, lastResult, watcher>>

Init ==
    /\ tasks = [i \in {} |-> 0]
    /\ clock = 0
    /\ pc = [s \in Sessions |-> "Polling"]
    /\ now = [s \in Sessions |-> 0]
    /\ queue_url = [s \in Sessions |-> None]
    /\ attempts = [s \in Sessions |-> MaxRetries]
    /\ xcom = [s \in Sessions |-> NoXcom]
    /\ lastResult = [s \in Sessions |-> None]
    /\ watcher = NoWatcher

\* one scheduling session against a repository other processes write
Environment ==
    /\ pc["s1"] \notin Terminal
    /\ \/ \E i \in TaskIds, q \in Queues : AddTask(i, q)
       \/ \E i \in TaskIds, st \in States : SetState(i, st)
       \/ Tick

Next ==
    \/ PokeChoose("s1")
    \/ PokeCollect("s1")
    \/ Environment

Spec == Init /\ [][Next]_vars

\* a poke whose two queries read one snapshot of the table: no other process
\* acts between choose_queue and collect_tasks
NextSnapshot ==
    \/ PokeChoose("s1")
    \/ PokeCollect("s1")
    \/ pc["s1"] # "Chosen" /\ Environment

SpecSnapshot == Init /\ [][NextSnapshot]_vars

\* two sessions (two DAG runs of the sensor) poking against one table in
\* the same cycles: producers insert tasks and time passes between the
\* pokes, and no pusher takes a task away
EnvironmentTwo ==
    /\ \E s \in Sessions : pc[s] \notin Terminal
    /\ \A s \in Sessions : pc[s] # "Chosen"
    /\ \/ \E i \in TaskIds, q \in Queues : AddTask(i, q)
       \/ Tick

NextTwo ==
    \/ \E s \in Sessions : PokeChoose(s)
    \/ \E s \in Sessions : PokeCollect(s)
    \/ EnvironmentTwo

SpecTwo == Init /\ [][NextTwo]_vars

\* the framework keeps poking: a poke that can run does run
SpecFair ==
    Spec /\ WF_vars(PokeChoose("s1")) /\ WF_vars(PokeCollect("s1"))

\* ------------------------------------------------- repeated sensor runs
\* 'SqsTaskPusherOperator' takes the batch the sensor left in XCom: its tasks
\* are queued and no longer pass the filter, and the next run of the DAG
\* starts the sensor afresh
PushBatch(s) ==
    /\ pc[s] = "Flushed"
    /\ tasks' = [i \in DOMAIN tasks |->
                    IF \E k \in 1..Len(xcom[s].tasks) : xcom[s].tasks[k].id = i
                    THEN [tasks[i] EXCEPT !.state = QUEUED] ELSE tasks[i]]
    /\ pc' = [pc EXCEPT ![s] = "Polling"]
    /\ attempts' = [attempts EXCEPT ![s] = MaxRetries]
    /\ xcom' = [xcom EXCEPT ![s] = NoXcom]
    /\ lastResult' = [lastResult EXCEPT ![s] = None]
    /\ now' = [now EXCEPT ![s] = 0]
    /\ queue_url' = [queue_url EXCEPT ![s] = None]
    /\ UNCHANGED <<clock, watcher>>

\* a run that ended without a batch is followed by the next run of the DAG
NextRun(s) ==
    /\ pc[s] \in {"SoftFailed", "HardFailed"}
    /\ pc' = [pc EXCEPT ![s] = "Polling"]
    /\ attempts' = [attempts EXCEPT ![s] = MaxRetries]
    /\ lastResult' = [lastResult EXCEPT ![s] = None]
    /\ UNCHANGED <<tasks, clock, now, queue_url, xcom, watcher>>

\* a producer inserts a task request for queue q in the place of a row the
\* pusher has taken; the execution date d of its task instance is not later
\* than the current time
Arrive(i, q, d) ==
    /\ i \in DOMAIN tasks
    /\ tasks[i].state = QUEUED
    /\ d <= clock
    /\ tasks' = [tasks EXCEPT ![i] = [queue_url |-> q, state |-> SCHEDULED,
                                      ti_execution_date |-> d]]
    /\ UNCHANGED <<clock, pc, now, queue_url, attempts, xcom, lastResult, watcher>>

EnvironmentRepeat ==
    \/ \E i \in TaskIds, q \in Queues : AddTask(i, q)
    \/ \E i \in TaskIds, q \in Queues, d \in 0..MaxTime : Arrive(i, q, d)
    \/ Tick

NextRepeat ==
    \/ PokeChoose("s1")
    \/ PokeCollect("s1")
    \/ PushBatch("s1")
    \/ NextRun("s1")
    \/ EnvironmentRepeat

\* every step of the sensor, of the pusher and of the DAG that can be taken
\* is taken; producers and the clock are free
SpecRepeat ==
    /\ Init
    /\ [][NextRepeat]_vars
    /\ WF_vars(PokeChoose("s1"))
    /\ WF_vars(PokeCollect("s1"))
    /\ WF_vars(PushBatch("s1"))
    /\ WF_vars(NextRun("s1"))

\* ------------------------------------------------- ErgoJobResultSensor
\* (src/src/sensors/job_result_sensor.py)

RUNNING == "running"
SUCCESS == "success"
FAILED == "failed"
AllStates == States \cup {RUNNING, SUCCESS, FAILED}

\* State.unfinished(), restricted to the states of this model
unfinished == {SCHEDULED, QUEUED, RUNNING, UP_FOR_RESCHEDULE}

\* task.job: the empty sequence when it is None, else the one ErgoJob row
\* with its result_code and error_msg
NoJob == <<>>
ResultCodes == {0, 1}
ErrorMsgs == {None, "boom"}
Jobs == {<<j>> : j \in [result_code : ResultCodes, error_msg : ErrorMsgs]}

\* _get_ergo_task: .one() of the query for the pusher's task; the table of a
\* watcher session holds that one row
_get_ergo_task(T) == T[CHOOSE i \in DOMAIN T : TRUE]

\* variant: 'and' for 'or' in the test of line 35
WatcherNotReady_And(task) == task.job = NoJob /\ task.state \in unfinished

\* line 35: job is None or task.state in State.unfinished()
WatcherNotReady(task) == task.job = NoJob \/ task.state \in unfinished

\* line 39: task.state == State.FAILED
WatcherRaises(task) == task.state = FAILED

\* ErgoFailedResultException(job.result_code, job.error_msg), as the one
\* element of the watcher's error
ErgoFailedResultException(job) ==
    <<[result_code |-> job[1].result_code, error_msg |-> job[1].error_msg]>>

\* ErgoJobResultSensor.poke with what the framework does with its outcome:
\* False lets it poke again while attempts remain and times the sensor out
\* after the last one (soft_fail is not set here), an exception fails the
\* task, True ends it
WatcherPoke ==
    /\ watcher.pc = "Polling"
    /\ LET task == _get_ergo_task(tasks) IN
       IF WatcherNotReady(task)
       THEN watcher' = [watcher EXCEPT
                !.result = "NotReady",
                !.pc = IF watcher.attempts > 0 THEN "Polling" ELSE "TimedOut",
                !.attempts = IF watcher.attempts > 0 THEN @ - 1 ELSE @]
       ELSE IF WatcherRaises(task)
       THEN watcher' = [watcher EXCEPT
                !.result = "Error", !.pc = "Failed",
                !.error = ErgoFailedResultException(task.job)]
       ELSE watcher' = [watcher EXCEPT !.result = "Ready", !.pc = "Done"]
    /\ UNCHANGED <<tasks, clock, pc, now, queue_url, attempts, xcom, lastResult>>

\* the executor moves the watched task to another state
ExecutorSetState(st) ==
    /\ \E i \in DOMAIN tasks :
         /\ tasks[i].state # st
         /\ tasks' = [tasks EXCEPT ![i].state = st]
    /\ UNCHANGED <<clock, pc, now, queue_url, attempts, xcom, lastResult, watcher>>

\* the executor attaches the job's outcome to the watched task, or rewrites it
AttachJob(j) ==
    /\ \E i \in DOMAIN tasks :
         /\ tasks[i].job # j
         /\ tasks' = [tasks EXCEPT ![i].job = j]
    /\ UNCHANGED <<clock, pc, now, queue_url, attempts, xcom, lastResult, watcher>>

\* a watcher session starts on the task its pusher created, in any state,
\* with or without a job
InitWatcher ==
    /\ \E q \in Queues, st \in AllStates, j \in Jobs \cup {NoJob} :
         tasks = [i \in {1} |->
                    [queue_url |-> q, state |-> st, ti_execution_date |-> 0,
                     job |-> j]]
    /\ clock = 0
    /\ pc = [s \in Sessions |-> "Polling"]
    /\ now = [s \in Sessions |-> 0]
    /\ queue_url = [s \in Sessions |-> None]
    /\ attempts = [s \in Sessions |-> MaxRetries]
    /\ xcom = [s \in Sessions |-> NoXcom]
    /\ lastResult = [s \in Sessions |-> None]
    /\ watcher = [pc |-> "Polling", attempts |-> MaxRetries,
                  result |-> None, error |-> <<>>]

WatcherEnvironment ==
    /\ watcher.pc = "Polling"
    /\ \/ \E st \in AllStates : ExecutorSetState(st)
       \/ \E j \in Jobs \cup {NoJob} : AttachJob(j)

NextWatcher ==
    \/ WatcherPoke
    \/ WatcherEnvironment

SpecWatcher == InitWatcher /\ [][NextWatcher]_vars

\* ------------------------------------------------- both sensors
\* a behaviour of the core is a behaviour of a batch sensor session or of a
\* watcher session, each with the processes that write its rows
InitCore == Init \/ InitWatcher

NextCore ==
    \/ watcher.pc = "Off" /\ Next
    \/ watcher.pc # "Off" /\ NextWatcher

SpecCore == InitCore /\ [][NextCore]_vars

\* =================================================================
\* The specification's own vocabulary, used to state the properties
\* =================================================================

\* spec 3: an item is eligible for batching iff its state is Pending or
\* AwaitingRetry (SCHEDULED, UP_FOR_RESCHEDULE)
Eligible(t) == t.state = SCHEDULED \/ t.state = UP_FOR_RESCHEDULE

\* spec 4.1: isUrgent(now, referenceTime, threshold)
isUrgent(n, referenceTime, threshold) == n - referenceTime >= threshold

\* the eligible items of destination q in the repository
EligibleOf(q) == {i \in DOMAIN tasks : Eligible(tasks[i]) /\ tasks[i].queue_url = q}
EligibleCount(q) == Cardinality(EligibleOf(q))
NoEligibleItem == \A q \in Queues : EligibleOf(q) = {}

\* session s finishes the collecting half of a poll in this step
CollectStep(s) == pc[s] = "Chosen" /\ pc'[s] # "Chosen"
\* session s runs the selector in this step
SelectStep(s) ==
    pc[s] = "Polling" /\ (pc'[s] # "Polling" \/ attempts'[s] # attempts[s])

\* the poll of s that finishes in this step returns Flush with n items
FlushesWith(s, n) ==
    /\ pc'[s] = "Flushed"
    /\ lastResult'[s] = "Flush"
    /\ Len(xcom'[s].tasks) = n
    /\ xcom'[s].sqs_queue_url = queue_url[s]

\* ------------------------------------------------------------------ C1
\* C1 (capacity forcing): a poll whose collector finds at least max_requests
\* eligible items on the selected destination returns Flush with exactly
\* max_requests items, whatever their ages and the attempts left.
C1_CapacityForcing ==
    [][\A s \in Sessions :
         (CollectStep(s) /\ EligibleCount(queue_url[s]) >= max_requests)
            => FlushesWith(s, max_requests)]_vars

\* a full batch of items none of which is urgent, flushed with attempts left
C1_Witness ==
    /\ pc["s1"] = "Flushed"
    /\ Len(xcom["s1"].tasks) = max_requests
    /\ attempts["s1"] > 0
    /\ \A k \in 1..Len(xcom["s1"].tasks) :
         ~isUrgent(now["s1"], xcom["s1"].tasks[k].ti_execution_date,
                   urgent_task_wait_threshold)

\* ------------------------------------------------------------------ C2
\* C2 (urgency forcing): a poll whose collected batch is non-empty, smaller
\* than max_requests and has an urgent leading item (age >= threshold)
\* returns Flush with all collected items, even when attempts remain.
C2_UrgencyForcing ==
    [][\A s \in Sessions :
         (/\ CollectStep(s)
          /\ EligibleCount(queue_url[s]) > 0
          /\ EligibleCount(queue_url[s]) < max_requests
          /\ \E i \in EligibleOf(queue_url[s]) :
                isUrgent(now[s], tasks[i].ti_execution_date,
                         urgent_task_wait_threshold))
            => FlushesWith(s, EligibleCount(queue_url[s]))]_vars

\* ------------------------------------------------------------------ C3
\* C3 (budget forcing): on the final allowed attempt every poll whose
\* collected batch is non-empty returns Flush with all collected items.
C3_BudgetForcing ==
    [][\A s \in Sessions :
         (/\ CollectStep(s)
          /\ attempts[s] = 0
          /\ EligibleCount(queue_url[s]) > 0)
            => FlushesWith(s, Min(EligibleCount(queue_url[s]), max_requests))]_vars

\* a batch below capacity with no urgent item, flushed on the final attempt
C3_Witness ==
    /\ pc["s1"] = "Flushed"
    /\ attempts["s1"] = 0
    /\ Len(xcom["s1"].tasks) < max_requests
    /\ \A k \in 1..Len(xcom["s1"].tasks) :
         ~isUrgent(now["s1"], xcom["s1"].tasks[k].ti_execution_date,
                   urgent_task_wait_threshold)

\* ------------------------------------------------------------------ C4
\* C4 (wait): a poll whose collected batch is non-empty, below max_requests
\* and without an urgent item, with attempts remaining, returns Wait and
\* the session stays in Polling.
C4_Wait ==
    [][\A s \in Sessions :
         (/\ CollectStep(s)
          /\ EligibleCount(queue_url[s]) > 0
          /\ EligibleCount(queue_url[s]) < max_requests
          /\ \A i \in EligibleOf(queue_url[s]) :
                ~isUrgent(now[s], tasks[i].ti_execution_date,
                          urgent_task_wait_threshold)
          /\ attempts[s] > 0)
            => /\ lastResult'[s] = "Wait"
               /\ pc'[s] = "Polling"
               /\ xcom'[s] = xcom[s]]_vars

\* a session back in Polling after a Wait, with no batch emitted, over a
\* repository whose only eligible item is younger than the threshold
C4_Witness ==
    /\ pc["s1"] = "Polling"
    /\ lastResult["s1"] = "Wait"
    /\ attempts["s1"] < MaxRetries
    /\ xcom["s1"] = NoXcom
    /\ \E q \in Queues :
         /\ EligibleCount(q) > 0
         /\ EligibleCount(q) < max_requests
         /\ \A i \in EligibleOf(q) :
              ~isUrgent(clock, tasks[i].ti_execution_date, urgent_task_wait_threshold)

\* ------------------------------------------------------------------ C5
\* the poll of s finishing in this step found nothing to batch
EmptyPoll(s) ==
    \/ SelectStep(s) /\ NoEligibleItem
    \/ CollectStep(s) /\ EligibleOf(queue_url[s]) = {}

\* C5 (soft failure): a poll on the exhausted budget that finds an empty
\* batch ends the session in SoftFailed, with no batch emitted and no error
\* (not HardFailed).
C5_SoftFailure ==
    [][\A s \in Sessions :
         (EmptyPoll(s) /\ attempts[s] = 0)
            => /\ pc'[s] = "SoftFailed"
               /\ xcom'[s] = NoXcom]_vars

\* a soft-failed session
C5_Witness ==
    /\ pc["s1"] = "SoftFailed"
    /\ attempts["s1"] = 0
    /\ lastResult["s1"] = "Idle"
    /\ xcom["s1"] = NoXcom

\* ------------------------------------------------------------------ C6
\* C6: every emitted batch is non-empty, has at most max_requests items, and
\* each item has the emitted destination and was eligible when collected.
C6_BatchWellFormed ==
    \A s \in Sessions :
        /\ pc[s] = "Flushed" <=> xcom[s] # NoXcom
        /\ xcom[s] # NoXcom =>
             /\ Len(xcom[s].tasks) >= 1
             /\ Len(xcom[s].tasks) <= max_requests
             /\ xcom[s].sqs_queue_url \in Queues
             /\ \A k \in 1..Len(xcom[s].tasks) :
                  /\ xcom[s].tasks[k].queue_url = xcom[s].sqs_queue_url
                  /\ Eligible(xcom[s].tasks[k])

\* a batch emitted after earlier polls, cut at max_requests because the
\* destination holds more eligible items than that
C6_Witness ==
    /\ pc["s1"] = "Flushed"
    /\ attempts["s1"] < MaxRetries
    /\ Len(xcom["s1"].tasks) = max_requests
    /\ EligibleCount(xcom["s1"].sqs_queue_url) > max_requests

\* ------------------------------------------------------------------ C7
\* spec 4.2: per-group oldest reference time and urgency
OldestReferenceTime(q) ==
    CHOOSE d \in {tasks[i].ti_execution_date : i \in EligibleOf(q)} :
        \A i \in EligibleOf(q) : d <= tasks[i].ti_execution_date
hasUrgent(q) == isUrgent(clock, OldestReferenceTime(q), urgent_task_wait_threshold)

\* the destination the selector returns in this step
Selected(s) == IF pc'[s] = "Chosen" THEN queue_url'[s] ELSE None

\* C7 (selector priority): the selector returns none exactly when no eligible
\* item exists; otherwise no destination with eligible items precedes the
\* returned one in the order (hasUrgent descending, count descending).
C7_SelectorPriority ==
    [][\A s \in Sessions : SelectStep(s) =>
         /\ Selected(s) = None <=> NoEligibleItem
         /\ Selected(s) # None =>
              /\ Selected(s) \in Queues
              /\ EligibleOf(Selected(s)) # {}
              /\ \A q \in Queues : EligibleOf(q) # {} =>
                   /\ hasUrgent(q) => hasUrgent(Selected(s))
                   /\ hasUrgent(q) = hasUrgent(Selected(s))
                        => EligibleCount(q) <= EligibleCount(Selected(s))]_vars

\* the selector has just picked the destination with one urgent item over a
\* destination with more items, none of them urgent
C7_Witness ==
    /\ pc["s1"] = "Chosen"
    /\ now["s1"] = clock
    /\ EligibleOf(queue_url["s1"]) # {}
    /\ hasUrgent(queue_url["s1"])
    /\ \E q \in Queues :
         /\ EligibleCount(q) > EligibleCount(queue_url["s1"])
         /\ ~hasUrgent(q)

\* ------------------------------------------------------------------ C8
\* C8 (selector determinism): on given repository contents and a given
\* 'now' the selector has one possible answer, also when two destinations
\* tie on urgency and count.
C8_SelectorDeterministic ==
    \A q1, q2 \in choose_queue(tasks, clock) : q1 = q2

\* ------------------------------------------------------------------ C9
\* C9 (urgency predicate): both urgency tests agree with
\* now - referenceTime >= threshold: the selector's on the oldest item of
\* each group, the flush policy's on each eligible item.
C9_UrgencyPredicate ==
    /\ \A q \in Queues : EligibleOf(q) # {} =>
         (col_is_urgent_task(tasks, q, clock) <=> hasUrgent(q))
    /\ \A i \in DOMAIN tasks : Eligible(tasks[i]) =>
         (IsUrgentTask(clock, Row(tasks, i))
            <=> isUrgent(clock, tasks[i].ti_execution_date,
                         urgent_task_wait_threshold))

\* ----------------------------------------------------------------- C10
\* C10 (no-op stability): a poll made while no destination has an eligible
\* item returns Idle, emits no batch and raises no error; the session keeps
\* polling until the attempt budget ends it.
C10_NoOpStability ==
    [][\A s \in Sessions : (SelectStep(s) /\ NoEligibleItem) =>
         /\ lastResult'[s] = "Idle"
         /\ xcom'[s] = xcom[s]
         /\ pc'[s] = (IF attempts[s] > 0 THEN "Polling" ELSE "SoftFailed")
         /\ attempts[s] > 0 => attempts'[s] = attempts[s] - 1]_vars

\* every poll of the budget but the last has returned Idle on a repository
\* that holds only items that are not eligible
C10_Witness ==
    /\ pc["s1"] = "Polling"
    /\ attempts["s1"] = 0
    /\ lastResult["s1"] = "Idle"
    /\ xcom["s1"] = NoXcom
    /\ DOMAIN tasks # {}
    /\ \A i \in DOMAIN tasks : tasks[i].state = QUEUED /\ tasks[i].ti_execution_date = clock

\* ----------------------------------------------------------------- C11
\* spec 4.5: the states that denote "unfinished"
Unfinished(t) == t.state # SUCCESS /\ t.state # FAILED

\* the watched item, and the watcher's poll happening in this step
WatchedItem == tasks[CHOOSE i \in DOMAIN tasks : TRUE]
WatcherStep == watcher.pc = "Polling" /\ watcher' # watcher

\* C11 (completion watcher outcome): a watcher poll raises
\* DownstreamJobFailed exactly when the item is Failed with a job attached,
\* carrying that job's resultCode and errorMessage; it returns NotReady with
\* no error when the state is unfinished or the job is absent, and Ready in
\* every other case.
C11_WatcherOutcome ==
    [][WatcherStep =>
         /\ watcher'.result = "Error"
              <=> (WatchedItem.state = FAILED /\ WatchedItem.job # NoJob)
         /\ watcher'.result = "Error" =>
              /\ watcher'.pc = "Failed"
              /\ Len(watcher'.error) = 1
              /\ watcher'.error[1].result_code = WatchedItem.job[1].result_code
              /\ watcher'.error[1].error_msg = WatchedItem.job[1].error_msg
         /\ (Unfinished(WatchedItem) \/ WatchedItem.job = NoJob) =>
              /\ watcher'.result = "NotReady"
              /\ watcher'.error = <<>>
              /\ watcher'.pc \in {"Polling", "TimedOut"}
         /\ (~Unfinished(WatchedItem) /\ WatchedItem.job # NoJob
               /\ WatchedItem.state # FAILED) =>
              /\ watcher'.result = "Ready"
              /\ watcher'.error = <<>>
              /\ watcher'.pc = "Done"]_vars

\* the watcher has failed with the outcome (1, "boom") of its Failed item,
\* after a poll that found the item not ready
C11_Witness ==
    /\ watcher.pc = "Failed"
    /\ watcher.attempts < MaxRetries
    /\ watcher.error = <<[result_code |-> 1, error_msg |-> "boom"]>>
    /\ WatchedItem.state = FAILED

\* ----------------------------------------------------------------- C12
\* a step of a poll: the state of a batch session or of the watcher changes
PollStep ==
    \/ \E s \in Sessions :
         <<pc[s], now[s], queue_url[s], attempts[s], xcom[s], lastResult[s]>>'
            # <<pc[s], now[s], queue_url[s], attempts[s], xcom[s], lastResult[s]>>
    \/ watcher' # watcher

\* C12 (read-only core): no poll of the batch scheduler or of the completion
\* watcher, whatever its outcome, changes the repository: the set of items
\* and each item's state, destination, referenceTime and job stay as they are.
C12_ReadOnlyCore == [][PollStep => tasks' = tasks]_vars

\* a batch has been emitted and the repository still holds each of its items
\* exactly as collected, still eligible
C12_Witness ==
    /\ pc["s1"] = "Flushed"
    /\ lastResult["s1"] = "Flush"
    /\ \A k \in 1..Len(xcom["s1"].tasks) :
         /\ xcom["s1"].tasks[k].id \in DOMAIN tasks
         /\ Row(tasks, xcom["s1"].tasks[k].id) = xcom["s1"].tasks[k]
         /\ Eligible(tasks[xcom["s1"].tasks[k].id])

\* ----------------------------------------------------------------- C13
\* C13 (session termination): a session with a finite attempt budget reaches
\* Flushed, SoftFailed or HardFailed by its own polls, and a session in one
\* of these states stays in it.
C13_SessionTermination ==
    /\ <>(pc["s1"] \in {"Flushed", "SoftFailed", "HardFailed"})
    /\ [][\A s \in Sessions :
            pc[s] \in {"Flushed", "SoftFailed", "HardFailed"} => pc'[s] = pc[s]]_vars

\* a session that polled through its whole budget: every poll but the last
\* returned not-yet and the last one ended it
C13_Witness ==
    /\ pc["s1"] \in {"Flushed", "SoftFailed"}
    /\ attempts["s1"] = 0
    /\ clock = MaxTime
    /\ Cardinality(DOMAIN tasks) = MaxTasks

\* ----------------------------------------------------------------- C14
\* the ids of the items of a batch
BatchIds(x) == {x.tasks[k].id : k \in 1..Len(x.tasks)}

\* C14 (no mutual exclusion across sessions): nothing keeps a session from
\* emitting what another has emitted: a session that flushes a destination
\* holding no more than max_requests eligible items emits every item of the
\* batch another session has emitted for that destination.  (The witness is
\* the state the claim says is reachable: one item in the batches of both.)
C14_NoMutualExclusion ==
    [][\A a, b \in Sessions :
         (/\ a # b
          /\ pc[a] = "Flushed"
          /\ CollectStep(b)
          /\ pc'[b] = "Flushed"
          /\ queue_url[b] = xcom[a].sqs_queue_url
          /\ EligibleCount(queue_url[b]) <= max_requests)
            => BatchIds(xcom[a]) \subseteq BatchIds(xcom'[b])]_vars

\* both sessions have emitted a batch for the same destination and an item
\* is in both batches
C14_Witness ==
    /\ pc["s1"] = "Flushed"
    /\ pc["s2"] = "Flushed"
    /\ xcom["s1"].sqs_queue_url = xcom["s2"].sqs_queue_url
    /\ BatchIds(xcom["s1"]) \cap BatchIds(xcom["s2"]) # {}

\* ----------------------------------------------------------------- C15
\* destination q holds an eligible item older than the urgency threshold
HoldsUrgentItem(q) ==
    \E i \in EligibleOf(q) :
        clock - tasks[i].ti_execution_date > urgent_task_wait_threshold

\* the session has emitted a batch of destination q
EmittedFor(q) == pc["s1"] = "Flushed" /\ xcom["s1"].sqs_queue_url = q

\* C15 (no starvation of an aging destination): under repeated sessions in
\* which flushed items leave the eligible set and destinations keep receiving
\* items, a destination that holds an urgent eligible item is eventually
\* selected and a batch of it emitted.
C15_NoStarvation == \A q \in Queues : HoldsUrgentItem(q) ~> EmittedFor(q)

\* ----------------------------------------------------------------- C16
\* the positions of the batch whose item is older than the threshold at n
UrgentPositions(result, n) ==
    {k \in 1..Len(result) :
        n - result[k].ti_execution_date > urgent_task_wait_threshold}

C17_OldestFirst ==
    [][\A s \in Sessions :
         (CollectStep(s) /\ pc'[s] = "Flushed") =>
            LET batch == xcom'[s].tasks
                q == xcom'[s].sqs_queue_url
            IN /\ Len(batch) = Min(max_requests, EligibleCount(q))
               /\ BatchIds(xcom'[s]) \subseteq EligibleOf(q)
               /\ Cardinality(BatchIds(xcom'[s])) = Len(batch)
               /\ \A k \in 1..Len(batch) :
                    batch[k].ti_execution_date = tasks[batch[k].id].ti_execution_date
               /\ \A j, k \in 1..Len(batch) :
                    j < k => batch[j].ti_execution_date <= batch[k].ti_execution_date
               /\ \A i \in EligibleOf(q) \ BatchIds(xcom'[s]) :
                    \A k \in 1..Len(batch) :
                       ~(tasks[i].ti_execution_date < batch[k].ti_execution_date)]_vars

\* a batch of two items of different age has been emitted and a third,
\* younger eligible item of the destination was left out
C17_Witness ==
    /\ pc["s1"] = "Flushed"
    /\ Len(xcom["s1"].tasks) = 2
    /\ xcom["s1"].tasks[1].ti_execution_date < xcom["s1"].tasks[2].ti_execution_date
    /\ \E i \in EligibleOf(xcom["s1"].sqs_queue_url) \ BatchIds(xcom["s1"]) :
         tasks[i].ti_execution_date > xcom["s1"].tasks[2].ti_execution_date

\* ----------------------------------------------------------------- C18
\* C18 (hand-off discipline): a session writes the hand-off slot (XCom: the
\* batch and its destination) only in the poll that returns Flush, and writes
\* the non-empty batch of the destination the poll selected; polls that
\* return Wait or Idle leave the slot unchanged; Flush ends the session, so
\* the slot is written at most once.
C18_HandOffDiscipline ==
    [][\A s \in Sessions :
         /\ xcom'[s] # xcom[s] =>
               /\ pc[s] = "Chosen"
               /\ pc'[s] = "Flushed"
               /\ lastResult'[s] = "Flush"
               /\ xcom[s] = NoXcom
               /\ xcom'[s].tasks # <<>>
               /\ xcom'[s].sqs_queue_url = queue_url[s]
         /\ (pc[s] \in {"Polling", "Chosen"} /\ pc'[s] # "Flushed")
               => xcom'[s] = xcom[s]
         /\ pc[s] = "Flushed" => (pc'[s] = "Flushed" /\ xcom'[s] = xcom[s])]_vars

\* a session that waited in an earlier poll has emitted its one batch
C18_Witness ==
    /\ pc["s1"] = "Flushed"
    /\ lastResult["s1"] = "Flush"
    /\ attempts["s1"] < MaxRetries
    /\ xcom["s1"].tasks # <<>>
    /\ xcom["s1"].sqs_queue_url \in Queues

\* ----------------------------------------------------------------- C19
\* some destination has max_requests eligible items, or an eligible item
\* that is urgent at n
ForcingDestination(n) ==
    \E q \in Queues :
        \/ EligibleCount(q) >= max_requests
        \/ \E i \in EligibleOf(q) :
              isUrgent(n, tasks[i].ti_execution_date, urgent_task_wait_threshold)

\* C19 (poll-level forcing): in a poll whose reads see one snapshot of the
\* repository, if some destination has at least max_requests eligible items
\* or an eligible item that is urgent (age >= threshold), the poll returns
\* Flush: it neither ends at the selector nor selects a destination on which
\* the policy returns Wait.
C19_PollForcing ==
    [][\A s \in Sessions :
         /\ (SelectStep(s) /\ ForcingDestination(clock)) => pc'[s] = "Chosen"
         /\ (CollectStep(s) /\ ForcingDestination(now[s]))
               => (pc'[s] = "Flushed" /\ lastResult'[s] = "Flush")]_vars

\* ----------------------------------------------------------------- C20
\* C20 (soft failure means nothing to deliver): a session ends SoftFailed
\* only in a poll at which no destination has any eligible item, also when
\* other writers change item states between the selector's read and the
\* collector's read of that poll.
C20_SoftFailedNothingToDeliver ==
    [][\A s \in Sessions :
         (pc[s] # "SoftFailed" /\ pc'[s] = "SoftFailed") => NoEligibleItem]_vars

====
